---- MODULE Spec2Model ----
(***************************************************************************)
(* The Star Wars blog schema of src/models.py: seven mapped tables, six    *)
(* association tables and the diagram script that runs under __main__.     *)
(* The declarations (columns, NOT NULL, UNIQUE, foreign keys, relationship *)
(* pairs) are written down as data, and the operations are the ones these  *)
(* declarations give a session: INSERT, UPDATE and DELETE of rows under    *)
(* the declared constraints, and the two ends of every relationship.       *)
(***************************************************************************)
EXTENDS Integers, FiniteSets, Sequences, TLC

VARIABLES
    db,          \* table name -> (id -> row), the committed rows
    fkEnforced,  \* whether the storage backend enforces FOREIGN KEY clauses
    result,      \* outcome of the last statement, as the caller sees it
    attrs,       \* relationship name -> (object id -> set of related ids), in the session
    assoc,       \* association table name -> set of join rows
    pc,          \* position of the diagram script
    fs,          \* what is at output_path: "absent", "file", or "locked" (cannot be removed)
    env,         \* which of the drawing dependencies are installed
    out,         \* what each run of the script has printed, run by run
    exitCode     \* exit status of the last run, -1 while it runs

vars == <<db, fkEnforced, result, attrs, assoc, pc, fs, env, out, exitCode>>

(***************************************************************************)
(* Bounds of the model.                                                    *)
(***************************************************************************)
MaxUsers == 2     \* users stored
MaxRows == 1      \* rows stored over all tables when records of every table are created
MaxId == 1        \* largest id given to a row that other rows refer to
MaxRefRows == 3   \* rows stored over all tables when rows refer to other rows
MaxChars == 3     \* characters in the session with their home planets
MaxPlanets == 2   \* planets in the session with their residents
MaxOwners == 2    \* users, or films, in the session with their collections
MaxMembers == 1   \* characters, planets and vehicles each, to collect
MaxLinks == 3     \* links held over all collections
MaxRuns == 2      \* runs of the diagram script
MaxVal == 2       \* distinct values offered for a unique column

NULL == 0         \* a column left empty (None)
Now == 1          \* the value func.now() yields

(***************************************************************************)
(* The declared schema.                                                    *)
(***************************************************************************)
Tables == {"users", "characters", "planets", "vehicles", "films", "blog_posts", "comments"}

\* Columns besides the integer primary key id.
Columns(t) ==
    CASE t = "users" -> {"username", "email", "password", "created_at", "updated_at"}
      [] t = "characters" -> {"name", "species", "birth_year", "gender", "height", "mass",
                              "home_planet_id"}
      [] t = "planets" -> {"name", "climate", "terrain", "population", "diameter"}
      [] t = "vehicles" -> {"name", "model", "manufacturer", "cost_in_credits", "length",
                            "max_atmosphering_speed", "crew", "passengers", "vehicle_class"}
      [] t = "films" -> {"title", "episode_id", "opening_crawl", "director", "producer",
                         "release_date"}
      [] t = "blog_posts" -> {"title", "content", "created_at", "updated_at", "author_id",
                              "category", "tags"}
      [] t = "comments" -> {"content", "created_at", "updated_at", "author_id", "post_id"}

\* Mutant of NotNull: User.email declared without nullable=False.
NotNullEmailNullable(t) ==
    CASE t = "users" -> {"username", "password"}
      [] t = "characters" -> {"name"}
      [] t = "planets" -> {"name"}
      [] t = "vehicles" -> {"name"}
      [] t = "films" -> {"title"}
      [] t = "blog_posts" -> {"title", "content"}
      [] t = "comments" -> {"content"}

\* Columns declared nullable=False.
NotNull(t) ==
    CASE t = "users" -> {"username", "email", "password"}
      [] t = "characters" -> {"name"}
      [] t = "planets" -> {"name"}
      [] t = "vehicles" -> {"name"}
      [] t = "films" -> {"title"}
      [] t = "blog_posts" -> {"title", "content"}
      [] t = "comments" -> {"content"}

\* Mutant of UniqueCols: User.username declared without unique=True.
UniqueColsNoUsername(t) == IF t = "users" THEN {"email"} ELSE {}

\* Mutant of UniqueCols: User.email declared without unique=True.
UniqueColsNoEmail(t) == IF t = "users" THEN {"username"} ELSE {}

\* Columns declared unique=True.
UniqueCols(t) == IF t = "users" THEN {"username", "email"} ELSE {}

\* Columns declared with server_default=func.now().
ServerDefault(t) == IF t \in {"users", "blog_posts", "comments"} THEN {"created_at"} ELSE {}

\* Columns declared with onupdate=func.now().
OnUpdate(t) == IF t \in {"users", "blog_posts", "comments"} THEN {"updated_at"} ELSE {}

\* Mutant of ForeignKeys: the referring columns declared as plain Integer columns.
ForeignKeysUndeclared(t) == {}

\* Declared foreign keys of a table: <<column, referenced table>>.
ForeignKeys(t) ==
    CASE t = "characters" -> {<<"home_planet_id", "planets">>}
      [] t = "blog_posts" -> {<<"author_id", "users">>}
      [] t = "comments" -> {<<"author_id", "users">>, <<"post_id", "blog_posts">>}
      [] OTHER -> {}

FKCols(t) == {fk[1] : fk \in ForeignKeys(t)}

(***************************************************************************)
(* The storage backend: constraint checks of a row against the database.   *)
(***************************************************************************)
Ids(t) == DOMAIN db[t]

StoredCount == LET n(t) == Cardinality(Ids(t)) IN
    n("users") + n("characters") + n("planets") + n("vehicles") + n("films")
      + n("blog_posts") + n("comments")

Max(S) == CHOOSE x \in S : \A y \in S : y <= x

\* The id an autoincrementing integer primary key gives the next row.
NextId(t) == IF Ids(t) = {} THEN 1 ELSE Max(Ids(t)) + 1

\* A row as stored: server defaults fill the columns the INSERT left empty.
WithDefaults(t, row) ==
    [c \in Columns(t) |-> IF row[c] = NULL /\ c \in ServerDefault(t) THEN Now ELSE row[c]]

\* NOT NULL columns the row leaves empty.
NullViolations(t, row) == {c \in NotNull(t) : row[c] = NULL}

\* UNIQUE columns whose value another stored row (not id self) already holds.
UniqueViolations(t, row, self) ==
    {c \in UniqueCols(t) : row[c] # NULL /\ \E i \in Ids(t) \ {self} : db[t][i][c] = row[c]}

\* Foreign keys whose value names no stored row of the referenced table.
FKViolations(t, row) ==
    {fk[1] : fk \in {k \in ForeignKeys(t) : row[k[1]] # NULL /\ row[k[1]] \notin Ids(k[2])}}

\* The errors the backend can raise for the row: <<constraint kind, column>>.
Violations(t, row, self) ==
    {<<"NOT NULL", c>> : c \in NullViolations(t, row)}
      \cup {<<"UNIQUE", c>> : c \in UniqueViolations(t, row, self)}
      \cup (IF fkEnforced THEN {<<"FOREIGN KEY", c>> : c \in FKViolations(t, row)} ELSE {})

\* What the caller gets back from a statement: it returned, or it raised.
Ok(op) == [op |-> op, status |-> "ok", kind |-> "none", table |-> "none", column |-> "none"]

IntegrityError(op, t, v) ==
    [op |-> op, status |-> "IntegrityError", kind |-> v[1], table |-> t, column |-> v[2]]

(***************************************************************************)
(* The association tables and the declared relationships.                  *)
(***************************************************************************)
Associations == {"user_favorite_characters", "user_favorite_planets", "user_favorite_vehicles",
                 "character_films", "planet_films", "vehicle_films"}

\* Columns of an association table, each a foreign key: <<column, referenced table>>.
AssocColumns(a) ==
    CASE a = "user_favorite_characters" -> {<<"user_id", "users">>, <<"character_id", "characters">>}
      [] a = "user_favorite_planets" -> {<<"user_id", "users">>, <<"planet_id", "planets">>}
      [] a = "user_favorite_vehicles" -> {<<"user_id", "users">>, <<"vehicle_id", "vehicles">>}
      [] a = "character_films" -> {<<"character_id", "characters">>, <<"film_id", "films">>}
      [] a = "planet_films" -> {<<"planet_id", "planets">>, <<"film_id", "films">>}
      [] a = "vehicle_films" -> {<<"vehicle_id", "vehicles">>, <<"film_id", "films">>}

\* The column of association a that refers to table t.
AssocCol(a, t) == (CHOOSE k \in AssocColumns(a) : k[2] = t)[1]

AssocTables(a) == {k[2] : k \in AssocColumns(a)}

TableOf(cls) ==
    CASE cls = "User" -> "users"
      [] cls = "Character" -> "characters"
      [] cls = "Planet" -> "planets"
      [] cls = "Vehicle" -> "vehicles"
      [] cls = "Film" -> "films"
      [] cls = "BlogPost" -> "blog_posts"
      [] cls = "Comment" -> "comments"

Rel(cls, attr, target, secondary, back) ==
    [cls |-> cls, attr |-> attr, target |-> target, secondary |-> secondary, back |-> back]

\* Every relationship() of the mapped classes: the class that declares it, its
\* attribute, the target class, secondary= and back_populates=.
Relationships ==
    { Rel("User", "favorite_characters", "Character", "user_favorite_characters", "favorited_by"),
      Rel("User", "favorite_planets", "Planet", "user_favorite_planets", "favorited_by"),
      Rel("User", "favorite_vehicles", "Vehicle", "user_favorite_vehicles", "favorited_by"),
      Rel("User", "posts", "BlogPost", "none", "author"),
      Rel("User", "comments", "Comment", "none", "author"),
      Rel("Character", "home_planet", "Planet", "none", "residents"),
      Rel("Character", "favorited_by", "User", "user_favorite_characters", "favorite_characters"),
      Rel("Character", "films", "Film", "character_films", "characters"),
      Rel("Planet", "residents", "Character", "none", "home_planet"),
      Rel("Planet", "favorited_by", "User", "user_favorite_planets", "favorite_planets"),
      Rel("Planet", "films", "Film", "planet_films", "planets"),
      Rel("Vehicle", "favorited_by", "User", "user_favorite_vehicles", "favorite_vehicles"),
      Rel("Vehicle", "films", "Film", "vehicle_films", "vehicles"),
      Rel("Film", "characters", "Character", "character_films", "films"),
      Rel("Film", "planets", "Planet", "planet_films", "films"),
      Rel("Film", "vehicles", "Vehicle", "vehicle_films", "films"),
      Rel("BlogPost", "author", "User", "none", "posts"),
      Rel("BlogPost", "comments", "Comment", "none", "post"),
      Rel("Comment", "author", "User", "none", "comments"),
      Rel("Comment", "post", "BlogPost", "none", "comments") }

\* The foreign key column of table child that refers to table parent.
FKTo(child, parent) == {k[1] : k \in {f \in ForeignKeys(child) : f[2] = parent}}

\* The direction the mapper derives for a relationship from where the foreign key is.
Direction(r) ==
    IF r.secondary # "none" THEN "MANYTOMANY"
    ELSE IF FKTo(TableOf(r.target), TableOf(r.cls)) # {} THEN "ONETOMANY"
    ELSE "MANYTOONE"

\* Whether the relationship attribute is a list (uselist) or a scalar.
UseList(r) == Direction(r) # "MANYTOONE"

\* The foreign key columns <<table, column>> a relationship of table t writes
\* on the rows of its children.
Dependents(t) ==
    UNION { {<<TableOf(r.target), c>> : c \in FKTo(TableOf(r.target), t)} :
              r \in {q \in Relationships : TableOf(q.cls) = t /\ Direction(q) = "ONETOMANY"} }

\* The association tables a relationship of table t maintains.
Secondaries(t) ==
    {r.secondary : r \in {q \in Relationships : TableOf(q.cls) = t /\ q.secondary # "none"}}

OrmUnchanged == UNCHANGED <<attrs, assoc>>
ScriptUnchanged == UNCHANGED <<pc, fs, env, out, exitCode>>

\* session.add(obj); session.commit(): one INSERT.  A violated constraint is
\* raised as IntegrityError and the transaction is rolled back.
Insert(t, row) ==
    /\ LET raised == Violations(t, row, 0) IN
       IF raised # {}
         THEN /\ \E v \in raised : result' = IntegrityError("insert", t, v)
              /\ db' = db
         ELSE /\ db' = [db EXCEPT ![t] =
                           [i \in Ids(t) \cup {NextId(t)} |->
                              IF i \in Ids(t) THEN db[t][i] ELSE WithDefaults(t, row)]]
              /\ result' = Ok("insert")
    /\ UNCHANGED fkEnforced
    /\ OrmUnchanged
    /\ ScriptUnchanged

\* Mutant of Update: clearing a reference deletes the row referred to
\* (session.delete of the author) instead of emptying the column.
UpdateDeletingReferent(t, id, col, val) ==
    /\ id \in Ids(t)
    /\ IF val = NULL /\ \E k \in ForeignKeys(t) : k[1] = col /\ db[t][id][col] \in Ids(k[2])
         THEN \E k \in ForeignKeys(t) :
                 /\ k[1] = col
                 /\ db' = [u \in Tables |->
                             IF u = k[2] THEN [i \in Ids(u) \ {db[t][id][col]} |-> db[u][i]]
                             ELSE [i \in Ids(u) |->
                                     [c \in Columns(u) |->
                                        IF <<c, k[2]>> \in ForeignKeys(u)
                                             /\ db[u][i][c] = db[t][id][col]
                                          THEN NULL ELSE db[u][i][c]]]]
                 /\ result' = Ok("update")
         ELSE /\ db' = [db EXCEPT ![t][id][col] = val]
              /\ result' = Ok("update")
    /\ UNCHANGED fkEnforced
    /\ OrmUnchanged
    /\ ScriptUnchanged

\* The database after UPDATE t SET col = val WHERE id = id, which also sets
\* the onupdate columns.
Written(t, id, col, val) ==
    [db EXCEPT ![t][id] = [c \in Columns(t) |->
                             IF c = col THEN val
                             ELSE IF c \in OnUpdate(t) THEN Now ELSE db[t][id][c]]]

\* obj.col = val; session.commit(): one UPDATE.
Update(t, id, col, val) ==
    LET written == Written(t, id, col, val)
        raised == Violations(t, written[t][id], id)
    IN /\ id \in Ids(t)
       /\ IF db[t][id][col] = val
            THEN \* no net change: the flush emits no UPDATE
                 /\ db' = db
                 /\ result' = Ok("update")
            ELSE IF raised # {}
            THEN /\ \E v \in raised : result' = IntegrityError("update", t, v)
                 /\ db' = db
            ELSE /\ db' = written
                 /\ result' = Ok("update")
       /\ UNCHANGED fkEnforced
       /\ OrmUnchanged
       /\ ScriptUnchanged

\* The rows of table u a deleted row <<t, id>> is the parent of.
ChildOf(u, i, t, id) == \E k \in Dependents(t) : k[1] = u /\ db[u][i][k[2]] = id

\* session.delete(obj); session.commit(): the unit of work first sets the
\* foreign keys of the children of obj's one-to-many relationships to NULL and
\* deletes obj's rows of its association tables, then deletes the row.
Delete(t, id) ==
    /\ id \in Ids(t)
    /\ LET deps == Dependents(t)
       IN db' = [u \in Tables |->
                   IF u = t THEN [i \in Ids(t) \ {id} |-> db[t][i]]
                   ELSE IF \A k \in deps : k[1] # u THEN db[u]
                   ELSE [i \in Ids(u) |->
                           IF ChildOf(u, i, t, id)
                             THEN [c \in Columns(u) |->
                                     IF <<u, c>> \in deps /\ db[u][i][c] = id THEN NULL
                                     ELSE IF c \in OnUpdate(u) THEN Now
                                     ELSE db[u][i][c]]
                             ELSE db[u][i]]]
    /\ assoc' = [a \in DOMAIN assoc |->
                   IF a \in Secondaries(t)
                     THEN {r \in assoc[a] : r[AssocCol(a, t)] # id}
                     ELSE assoc[a]]
    /\ result' = Ok("delete")
    /\ UNCHANGED <<fkEnforced, attrs>>
    /\ ScriptUnchanged

\* Whether a stored row or a join row refers to row id of table t.
Referenced(t, id) ==
    \/ \E u \in Tables : \E i \in Ids(u) : \E k \in ForeignKeys(u) :
          k[2] = t /\ db[u][i][k[1]] = id
    \/ \E a \in DOMAIN assoc : t \in AssocTables(a) /\ \E r \in assoc[a] : r[AssocCol(a, t)] = id

\* A DELETE statement sent without the unit of work (Query.delete()): the row
\* alone is removed, unless the backend refuses to delete a referenced row.
BulkDelete(t, id) ==
    /\ id \in Ids(t)
    /\ IF fkEnforced /\ Referenced(t, id)
         THEN /\ result' = IntegrityError("bulk_delete", t, <<"FOREIGN KEY", "id">>)
              /\ db' = db
         ELSE /\ db' = [db EXCEPT ![t] = [i \in Ids(t) \ {id} |-> db[t][i]]]
              /\ result' = Ok("bulk_delete")
    /\ UNCHANGED fkEnforced
    /\ OrmUnchanged
    /\ ScriptUnchanged

(***************************************************************************)
(* Initial states and the records callers build.                           *)
(***************************************************************************)
EmptyDb == [t \in Tables |-> << >>]

NoAttrs == << >>
NoAssoc == [a \in Associations |-> {}]

ScriptIdle ==
    /\ pc = "idle"
    /\ fs = "absent"
    /\ env = {}
    /\ out = << >>
    /\ exitCode = -1

\* The record a caller builds: the columns in omit are left out, the unique
\* columns take the given values, a foreign key names row fk.
RowInput(t, omit, u, e, fk) ==
    [c \in Columns(t) |->
        IF c \in omit THEN NULL
        ELSE IF c = "username" THEN u
        ELSE IF c = "email" THEN e
        ELSE IF c \in FKCols(t) THEN fk
        ELSE 1]

\* A record is built complete or with one of its columns left out.
OmitChoices(t) == {{}} \cup {{c} : c \in Columns(t)}

\* The records offered for table t, with unique values from vals and
\* foreign keys from fks.
RowInputs(t, vals, fks) ==
    {RowInput(t, omit, u, e, fk) : omit \in OmitChoices(t), u \in vals, e \in vals, fk \in fks}

InitDB ==
    /\ db = EmptyDb
    /\ fkEnforced \in BOOLEAN
    /\ result = Ok("none")
    /\ attrs = NoAttrs
    /\ assoc = NoAssoc
    /\ ScriptIdle

(***************************************************************************)
(* Users under the unique constraints: create and update.                  *)
(***************************************************************************)
\* A user is built with every column given or, as callers do, with the two
\* timestamps left to the database.
UserRows ==
    {RowInput("users", omit, u, e, NULL) :
        omit \in {{}, {"created_at", "updated_at"}}, u \in 1..MaxVal, e \in 1..MaxVal}

CreateUser ==
    \E row \in UserRows :
        /\ Violations("users", row, 0) # {} \/ Cardinality(Ids("users")) < MaxUsers
        /\ Insert("users", row)

UpdateUser ==
    \E id \in Ids("users") : \E col \in {"username", "email", "password"} :
        \E val \in (IF col = "password" THEN {NULL, 1} ELSE 0..MaxVal) :
            Update("users", id, col, val)

NextUser == CreateUser \/ UpdateUser

SpecUser == InitDB /\ [][NextUser]_vars

\* C1: in every state reached by creating and updating users, no two distinct
\* stored users have the same username and no two have the same email.
C1_UsersUnique ==
    \A i \in Ids("users") : \A j \in Ids("users") :
        i # j => /\ db["users"][i]["username"] # db["users"][j]["username"]
                 /\ db["users"][i]["email"] # db["users"][j]["email"]

\* Two users are stored and an update of one of them has been committed.
C1_Witness ==
    /\ Cardinality(Ids("users")) >= 2
    /\ result = Ok("update")
    /\ \E i \in Ids("users") : db["users"][i]["updated_at"] = Now

\* C2: creating a user whose email a stored user already has raises a
\* constraint violation to the caller and leaves the stored users as they were.
C2_DuplicateEmailRejected ==
    [][\A row \in UserRows :
          ( /\ result'.op = "insert"
            /\ row["email"] # NULL
            /\ \E i \in Ids("users") : db["users"][i]["email"] = row["email"]
            /\ Insert("users", row) )
          => /\ result'.status = "IntegrityError"
             /\ db'["users"] = db["users"]]_vars

\* A user is stored and the last create was refused for its duplicate email.
C2_Witness ==
    /\ Ids("users") # {}
    /\ result = IntegrityError("insert", "users", <<"UNIQUE", "email">>)

(***************************************************************************)
(* Records of every table with a column left out.                          *)
(***************************************************************************)
CreateRow ==
    \E t \in Tables : \E row \in RowInputs(t, {1}, {1}) :
        /\ Violations(t, row, 0) # {} \/ StoredCount < MaxRows
        /\ Insert(t, row)

NextRows == CreateRow

SpecRows == InitDB /\ [][NextRows]_vars

\* The fields the claim lists as required, table by table.
C9_Required(t) ==
    CASE t = "users" -> {"username", "email", "password"}
      [] t \in {"characters", "planets", "vehicles"} -> {"name"}
      [] t = "films" -> {"title"}
      [] t = "blog_posts" -> {"title", "content"}
      [] t = "comments" -> {"content"}

\* The optional references and the table each refers to.
C9_References ==
    {<<"home_planet_id", "planets">>, <<"author_id", "users">>, <<"post_id", "blog_posts">>}

\* C9: creating a record that lacks one of its required fields is refused and
\* leaves the stored data unchanged; a record that has them is accepted
\* whichever other field, foreign keys included, it leaves out.
C9_RequiredFields ==
    [][\A t \in {u \in Tables : db'[u] # db[u] \/ result'.table = u} :
       \A row \in RowInputs(t, {1}, {1}) :
          Insert(t, row) =>
            /\ (\E c \in C9_Required(t) : row[c] = NULL)
                  => (db' = db /\ result'.status = "IntegrityError")
            /\ ( /\ \A c \in C9_Required(t) : row[c] # NULL
                 /\ \A i \in Ids(t) : \A c \in {"username", "email"} \cap Columns(t) :
                       db[t][i][c] # row[c]
                 /\ \A k \in C9_References : k[1] \in Columns(t) =>
                       row[k[1]] = NULL \/ row[k[1]] \in Ids(k[2]) \/ ~fkEnforced )
                  => /\ result' = Ok("insert")
                     /\ DOMAIN db'[t] = Ids(t) \cup {NextId(t)}
                     /\ \A c \in Columns(t) :
                           row[c] # NULL => db'[t][NextId(t)][c] = row[c]]_vars

\* A character stored without its home planet reference, and a blog post
\* without title then refused.
C9_Witness ==
    /\ \E i \in Ids("characters") : db["characters"][i]["home_planet_id"] = NULL
    /\ result = IntegrityError("insert", "blog_posts", <<"NOT NULL", "title">>)

(***************************************************************************)
(* Rows that refer to other rows: characters and their home planet, blog   *)
(* posts and comments with their author and post.                          *)
(***************************************************************************)
RefTables == {"users", "planets", "characters", "blog_posts", "comments"}

RefCount == LET n(t) == Cardinality(Ids(t)) IN
    n("users") + n("planets") + n("characters") + n("blog_posts") + n("comments")

\* The references offered for a foreign key column: none, or an id up to MaxId.
RefRows(t) ==
    {[c \in Columns(t) |-> IF c \in FKCols(t) THEN fks[c] ELSE 1] :
        fks \in [FKCols(t) -> 0..MaxId]}

CreateRef ==
    \E t \in RefTables : \E row \in RefRows(t) :
        /\ NextId(t) <= MaxId
        /\ Violations(t, row, 0) # {} \/ RefCount < MaxRefRows
        /\ Insert(t, row)

UpdateRef ==
    \E t \in RefTables : \E id \in Ids(t) : \E col \in FKCols(t) : \E val \in 0..MaxId :
        Update(t, id, col, val)

DeleteRow == \E t \in RefTables : \E id \in Ids(t) : Delete(t, id)

BulkDeleteRow == \E t \in RefTables : \E id \in Ids(t) : BulkDelete(t, id)

NextRef == CreateRef \/ UpdateRef \/ DeleteRow \/ BulkDeleteRow

SpecRef == InitDB /\ [][NextRef]_vars

\* C5: clearing the author reference of a blog post leaves the post's
\* comments as they were: each still exists, is still attached to the post
\* and keeps its own author reference.
C5_CommentsKept ==
    [][\A p \in Ids("blog_posts") :
          ( /\ result' = Ok("update")
            /\ db["blog_posts"][p]["author_id"] # NULL
            /\ Update("blog_posts", p, "author_id", NULL) )
          => \A c \in Ids("comments") :
                db["comments"][c]["post_id"] = p
                  => /\ c \in DOMAIN db'["comments"]
                     /\ db'["comments"][c]["post_id"] = p
                     /\ db'["comments"][c]["author_id"] = db["comments"][c]["author_id"]]_vars

\* A post whose author reference was cleared by the last update still has a
\* comment that keeps its author.
C5_Witness ==
    /\ result = Ok("update")
    /\ \E p \in Ids("blog_posts") :
          /\ db["blog_posts"][p]["author_id"] = NULL
          /\ db["blog_posts"][p]["updated_at"] = Now
          /\ \E c \in Ids("comments") :
                /\ db["comments"][c]["post_id"] = p
                /\ db["comments"][c]["author_id"] \in Ids("users")

\* The references the claim names: <<table, column, referenced table>>.
C6_References ==
    { <<"characters", "home_planet_id", "planets">>, <<"blog_posts", "author_id", "users">>,
      <<"comments", "author_id", "users">>, <<"comments", "post_id", "blog_posts">> }

\* The references <<table, id, column>> that name no stored row.
C6_Dangling ==
    UNION { {<<k[1], i, k[2]>> : i \in {j \in Ids(k[1]) :
                db[k[1]][j][k[2]] # NULL /\ db[k[1]][j][k[2]] \notin Ids(k[3])} } :
            k \in C6_References }

\* C6 as stated: in every reachable state every reference is empty or names
\* a stored row of the referenced table.
C6_NoDanglingReference == C6_Dangling = {}

\* C6, amended: on a backend that enforces the declared foreign keys every
\* reference is empty or names a stored row; on any backend, deleting a row
\* through the session leaves no reference dangling that was not already.
C6_Amended ==
    /\ [](fkEnforced => C6_Dangling = {})
    /\ [][result' = Ok("delete") =>
            \A t \in RefTables : \A id \in Ids(t) \ DOMAIN db'[t] :
                Delete(t, id) => C6_Dangling' \subseteq C6_Dangling]_vars

\* On an enforcing backend a referenced blog post was deleted through the
\* session and its comment, updated by that flush, now has an empty post_id.
C6_Witness ==
    /\ fkEnforced
    /\ result = Ok("delete")
    /\ Ids("blog_posts") = {}
    /\ \E c \in Ids("comments") :
          /\ db["comments"][c]["post_id"] = NULL
          /\ db["comments"][c]["updated_at"] = Now

(***************************************************************************)
(* The two ends of a relationship in the session.  attrs holds, for every  *)
(* relationship attribute in scope and every object of its class, the ids  *)
(* the attribute holds: a list attribute any number, a scalar at most one. *)
(* back_populates makes a change at one end an event at the other.         *)
(***************************************************************************)
Key(r) == <<r.cls, r.attr>>

RelOf(cls, attr) == CHOOSE r \in Relationships : r.cls = cls /\ r.attr = attr

\* Mutant of HasBackref: favorited_by declared without back_populates.
HasBackrefNotFavoritedBy(r) == r.back # "none" /\ r.attr # "favorited_by"

\* Whether changes of the attribute are passed on to the other end.
HasBackref(r) == r.back # "none"

Backref(r) == RelOf(r.target, r.back)

\* Mutant of ScalarReplace: the object stays in the collection of the parent
\* it is taken from.
ScalarReplaceKeepingOld(A, b, y, x) == [A EXCEPT ![Key(b)][y] = {x}]

\* The scalar y.b is set to x by the event of the other end; the parent it
\* held before loses y from its collection.
ScalarReplace(A, b, y, x) ==
    LET old == A[Key(b)][y] \ {x}
        A1 == [A EXCEPT ![Key(b)][y] = {x}]
    IN IF HasBackref(b)
         THEN [A1 EXCEPT ![Key(Backref(b))] =
                 [z \in DOMAIN @ |-> IF z \in old THEN @[z] \ {y} ELSE @[z]]]
         ELSE A1

\* x.r.append(y) and the event it sends to y's end.
Appended(A, r, x, y) ==
    LET A0 == [A EXCEPT ![Key(r)][x] = @ \cup {y}]
    IN IF ~HasBackref(r) THEN A0
       ELSE IF UseList(Backref(r)) THEN [A0 EXCEPT ![Key(Backref(r))][y] = @ \cup {x}]
       ELSE ScalarReplace(A0, Backref(r), y, x)

\* Mutant of Removed: the removal is not passed on to the other end.
RemovedOneEnd(A, r, x, y) == [A EXCEPT ![Key(r)][x] = @ \ {y}]

\* x.r.remove(y) and the event it sends to y's end.
Removed(A, r, x, y) ==
    LET A0 == [A EXCEPT ![Key(r)][x] = @ \ {y}]
    IN IF ~HasBackref(r) THEN A0
       ELSE [A0 EXCEPT ![Key(Backref(r))][y] = @ \ {x}]

\* y.r = v for a scalar r (v = NULL clears it) and the events it sends to the
\* collections of the old and the new value.
Assigned(A, r, y, v) ==
    LET old == A[Key(r)][y] \ {v}
        A0 == [A EXCEPT ![Key(r)][y] = IF v = NULL THEN {} ELSE {v}]
    IN IF ~HasBackref(r) THEN A0
       ELSE [A0 EXCEPT ![Key(Backref(r))] =
               [z \in DOMAIN @ |->
                  IF z = v THEN @[z] \cup {y}
                  ELSE IF z \in old THEN @[z] \ {y}
                  ELSE @[z]]]

\* The join row of association a that links x of r's class with y of its target.
JoinRow(a, r, x, y) ==
    [c \in {AssocCol(a, TableOf(r.cls)), AssocCol(a, TableOf(r.target))} |->
        IF c = AssocCol(a, TableOf(r.cls)) THEN x ELSE y]

\* What a flush writes for the link x.r -> y: a join row for a secondary
\* relationship, else the foreign key of the row on the many side.  val is
\* the parent id to store, or NULL when the link is taken away.
FlushedDb(r, x, y, linked) ==
    IF Direction(r) = "ONETOMANY"
      THEN Written(TableOf(r.target), y,
                   CHOOSE c \in FKTo(TableOf(r.target), TableOf(r.cls)) : TRUE,
                   IF linked THEN x ELSE NULL)
    ELSE IF Direction(r) = "MANYTOONE"
      THEN Written(TableOf(r.cls), x,
                   CHOOSE c \in FKTo(TableOf(r.cls), TableOf(r.target)) : TRUE,
                   IF linked THEN y ELSE NULL)
    ELSE db

FlushedAssoc(r, x, y, linked) ==
    IF Direction(r) = "MANYTOMANY"
      THEN [assoc EXCEPT ![r.secondary] =
              IF linked THEN @ \cup {JoinRow(r.secondary, r, x, y)}
              ELSE @ \ {JoinRow(r.secondary, r, x, y)}]
      ELSE assoc

\* The join rows stored over all association tables.
JoinRows == LET n(a) == Cardinality(assoc[a]) IN
    n("user_favorite_characters") + n("user_favorite_planets") + n("user_favorite_vehicles")
      + n("character_films") + n("planet_films") + n("vehicle_films")

\* x.r.append(y); session.flush()
ListAppend(r, x, y) ==
    /\ UseList(r)
    /\ x \in Ids(TableOf(r.cls))
    /\ y \in Ids(TableOf(r.target))
    /\ y \notin attrs[Key(r)][x]
    /\ attrs' = Appended(attrs, r, x, y)
    /\ db' = FlushedDb(r, x, y, TRUE)
    /\ assoc' = FlushedAssoc(r, x, y, TRUE)
    /\ result' = Ok("append")
    /\ UNCHANGED fkEnforced
    /\ ScriptUnchanged

\* x.r.remove(y); session.flush()
ListRemove(r, x, y) ==
    /\ UseList(r)
    /\ x \in Ids(TableOf(r.cls))
    /\ y \in attrs[Key(r)][x]
    /\ attrs' = Removed(attrs, r, x, y)
    /\ db' = FlushedDb(r, x, y, FALSE)
    /\ assoc' = FlushedAssoc(r, x, y, FALSE)
    /\ result' = Ok("remove")
    /\ UNCHANGED fkEnforced
    /\ ScriptUnchanged

\* x.r = y (or None); session.flush()
ScalarSet(r, x, y) ==
    /\ ~UseList(r)
    /\ x \in Ids(TableOf(r.cls))
    /\ y = NULL \/ y \in Ids(TableOf(r.target))
    /\ attrs' = Assigned(attrs, r, x, y)
    /\ db' = FlushedDb(r, x, y, y # NULL)
    /\ assoc' = assoc
    /\ result' = Ok("assign")
    /\ UNCHANGED fkEnforced
    /\ ScriptUnchanged

\* A database holding n complete rows in each of the given tables.
Seeded(ts, n) ==
    [t \in Tables |-> IF t \in ts THEN [i \in 1..n[t] |-> [c \in Columns(t) |->
                                           IF c \in FKCols(t) \cup OnUpdate(t) THEN NULL ELSE 1]]
                      ELSE << >>]

\* A session holding the seeded objects, every relationship attribute empty.
InitORM(keys, ts, n) ==
    /\ db = Seeded(ts, n)
    /\ fkEnforced \in BOOLEAN
    /\ result = Ok("none")
    /\ attrs = [k \in keys |-> [i \in Ids(TableOf(k[1])) |-> {}]]
    /\ assoc = NoAssoc
    /\ ScriptIdle

(***************************************************************************)
(* Characters and their home planet.                                       *)
(***************************************************************************)
HomeKeys == {<<"Character", "home_planet">>, <<"Planet", "residents">>}

HomeSize == [t \in Tables |-> IF t = "characters" THEN MaxChars ELSE MaxPlanets]

InitHome == InitORM(HomeKeys, {"characters", "planets"}, HomeSize)

SetHomePlanet ==
    \E c \in Ids("characters") : \E p \in Ids("planets") \cup {NULL} :
        ScalarSet(RelOf("Character", "home_planet"), c, p)

AppendResident ==
    \E p \in Ids("planets") : \E c \in Ids("characters") :
        ListAppend(RelOf("Planet", "residents"), p, c)

RemoveResident ==
    \E p \in Ids("planets") : \E c \in Ids("characters") :
        ListRemove(RelOf("Planet", "residents"), p, c)

NextHome == SetHomePlanet \/ AppendResident \/ RemoveResident

SpecHome == InitHome /\ [][NextHome]_vars

home_planet(c) == attrs[<<"Character", "home_planet">>][c]
residents(p) == attrs[<<"Planet", "residents">>][p]

Collected == {"Character", "Planet", "Vehicle"}

FavAttr(cls) ==
    CASE cls = "Character" -> "favorite_characters"
      [] cls = "Planet" -> "favorite_planets"
      [] cls = "Vehicle" -> "favorite_vehicles"

FilmAttr(cls) ==
    CASE cls = "Character" -> "characters"
      [] cls = "Planet" -> "planets"
      [] cls = "Vehicle" -> "vehicles"

FavKeys == {<<"User", FavAttr(cls)>> : cls \in Collected}
              \cup {<<cls, "favorited_by">> : cls \in Collected}

FavSize == [t \in Tables |-> IF t = "users" THEN MaxOwners ELSE MaxMembers]

InitFav == InitORM(FavKeys, {"users", "characters", "planets", "vehicles"}, FavSize)

\* user.favorite_*.append(entity)
AddFavorite ==
    \E cls \in Collected : \E u \in Ids("users") : \E e \in Ids(TableOf(cls)) :
        /\ JoinRows < MaxLinks
        /\ ListAppend(RelOf("User", FavAttr(cls)), u, e)

\* user.favorite_*.remove(entity)
RemoveFavorite ==
    \E cls \in Collected : \E u \in Ids("users") : \E e \in Ids(TableOf(cls)) :
        ListRemove(RelOf("User", FavAttr(cls)), u, e)

\* entity.favorited_by.append(user)
AddFan ==
    \E cls \in Collected : \E e \in Ids(TableOf(cls)) : \E u \in Ids("users") :
        /\ JoinRows < MaxLinks
        /\ ListAppend(RelOf(cls, "favorited_by"), e, u)

\* entity.favorited_by.remove(user)
RemoveFan ==
    \E cls \in Collected : \E e \in Ids(TableOf(cls)) : \E u \in Ids("users") :
        ListRemove(RelOf(cls, "favorited_by"), e, u)

NextFav == AddFavorite \/ RemoveFavorite \/ AddFan \/ RemoveFan

SpecFav == InitFav /\ [][NextFav]_vars

\* The favorites associations as the claim names them: <<User attribute,
\* class, association table, its column for the class, table of the class>>.
C8_Favorites ==
    { <<"favorite_characters", "Character", "user_favorite_characters", "character_id", "characters">>,
      <<"favorite_planets", "Planet", "user_favorite_planets", "planet_id", "planets">>,
      <<"favorite_vehicles", "Vehicle", "user_favorite_vehicles", "vehicle_id", "vehicles">> }

\* C8: after any adds and removes at either end of a favorites association,
\* e is in the user's favorites exactly when the user is in e.favorited_by,
\* and the links are the join rows, each holding the user id and the entity
\* id and nothing else.
C8_FavoritesSymmetric ==
    \A f \in C8_Favorites :
        /\ \A u \in Ids("users") : \A e \in Ids(f[5]) :
              e \in attrs[<<"User", f[1]>>][u] <=> u \in attrs[<<f[2], "favorited_by">>][e]
        /\ \A row \in assoc[f[3]] :
              /\ DOMAIN row = {"user_id", f[4]}
              /\ row[f[4]] \in attrs[<<"User", f[1]>>][row["user_id"]]
        /\ \A u \in Ids("users") : \A e \in attrs[<<"User", f[1]>>][u] :
              \E row \in assoc[f[3]] : row["user_id"] = u /\ row[f[4]] = e

\* After a removal, user 2 still has a favorite planet added from either end
\* and a join row stands for the link.
C8_Witness ==
    /\ result = Ok("remove")
    /\ 1 \in attrs[<<"User", "favorite_planets">>][2]
    /\ 2 \in attrs[<<"Planet", "favorited_by">>][1]
    /\ [user_id |-> 2, planet_id |-> 1] \in assoc["user_favorite_planets"]
    /\ assoc["user_favorite_characters"] = {}

(***************************************************************************)
(* Films and the characters, planets and vehicles that appear in them.     *)
(***************************************************************************)
FilmKeys == {<<"Film", FilmAttr(cls)>> : cls \in Collected}
               \cup {<<cls, "films">> : cls \in Collected}

FilmSize == [t \in Tables |-> IF t = "films" THEN MaxOwners ELSE MaxMembers]

InitFilm == InitORM(FilmKeys, {"films", "characters", "planets", "vehicles"}, FilmSize)

\* film.characters.append(c), film.planets.append(p), film.vehicles.append(v)
AddToFilm ==
    \E cls \in Collected : \E f \in Ids("films") : \E e \in Ids(TableOf(cls)) :
        /\ JoinRows < MaxLinks
        /\ ListAppend(RelOf("Film", FilmAttr(cls)), f, e)

\* film.characters.remove(c), ...
RemoveFromFilm ==
    \E cls \in Collected : \E f \in Ids("films") : \E e \in Ids(TableOf(cls)) :
        ListRemove(RelOf("Film", FilmAttr(cls)), f, e)

\* entity.films.append(film)
AddFilm ==
    \E cls \in Collected : \E e \in Ids(TableOf(cls)) : \E f \in Ids("films") :
        /\ JoinRows < MaxLinks
        /\ ListAppend(RelOf(cls, "films"), e, f)

\* entity.films.remove(film)
RemoveFilm ==
    \E cls \in Collected : \E e \in Ids(TableOf(cls)) : \E f \in Ids("films") :
        ListRemove(RelOf(cls, "films"), e, f)

NextFilm == AddToFilm \/ RemoveFromFilm \/ AddFilm \/ RemoveFilm

SpecFilm == InitFilm /\ [][NextFilm]_vars

\* The film associations as the claim names them: <<Film attribute, class, table>>.
C4_FilmSides ==
    { <<"characters", "Character", "characters">>, <<"planets", "Planet", "planets">>,
      <<"vehicles", "Vehicle", "vehicles">> }

\* C4: after any adds and removes at either end of a film association, e is
\* in the film's characters, planets or vehicles exactly when the film is in e.films.
C4_FilmsSymmetric ==
    \A s \in C4_FilmSides : \A f \in Ids("films") : \A e \in Ids(s[3]) :
        e \in attrs[<<"Film", s[1]>>][f] <=> f \in attrs[<<s[2], "films">>][e]

\* After a removal, film 1 still lists a vehicle and film 2 a character, and
\* each of them lists its film.
C4_Witness ==
    /\ result = Ok("remove")
    /\ 1 \in attrs[<<"Film", "vehicles">>][1]
    /\ 1 \in attrs[<<"Vehicle", "films">>][1]
    /\ 1 \in attrs[<<"Film", "characters">>][2]
    /\ 2 \in attrs[<<"Character", "films">>][1]

(***************************************************************************)
(* The diagram script under __main__, statement by statement.              *)
(***************************************************************************)
Dependencies == {"sqlalchemy_schemadisplay", "pydot", "graphviz"}

\* What the import statement of the script needs: the package and pydot,
\* which the package imports in turn.
Importable == {"sqlalchemy_schemadisplay", "pydot"} \subseteq env

SuccessLine == "diagram.png generated successfully"
ErrorLines ==
    << "Error: Could not import sqlalchemy_schemadisplay.",
       "Please install it using: pip install sqlalchemy_schemadisplay",
       "You may also need to install: pip install pydot",
       "And on Ubuntu/Debian: sudo apt-get install graphviz" >>
Traceback == "Traceback (most recent call last)"

DbUnchanged == UNCHANGED <<db, fkEnforced, result, attrs, assoc>>

\* print(line): the line is added to what the running script has printed.
Printed(line) == [out EXCEPT ![Len(out)] = Append(@, line)]

\* An exception no handler of the script catches: the interpreter prints
\* the traceback and exits with status 1.
Uncaught ==
    /\ out' = Printed(Traceback)
    /\ exitCode' = 1
    /\ pc' = "done"

InitScript ==
    /\ db = EmptyDb
    /\ fkEnforced \in BOOLEAN
    /\ result = Ok("none")
    /\ attrs = NoAttrs
    /\ assoc = NoAssoc
    /\ pc = "idle"
    /\ fs \in {"absent", "file", "locked"}
    /\ env \in SUBSET Dependencies
    /\ out = << >>
    /\ exitCode = -1

\* python src/models.py
Start ==
    /\ pc \in {"idle", "done"}
    /\ Len(out) < MaxRuns
    /\ out' = Append(out, << >>)
    /\ exitCode' = -1
    /\ pc' = "remove"
    /\ UNCHANGED <<fs, env>>
    /\ DbUnchanged

\* Mutant of RemoveOld: the script goes on to the import without os.remove.
RemoveOldSkipped ==
    /\ pc = "remove"
    /\ pc' = "import"
    /\ UNCHANGED <<fs, env, out, exitCode>>
    /\ DbUnchanged

\* try: os.remove(output_path) / except FileNotFoundError: pass
RemoveOld ==
    /\ pc = "remove"
    /\ IF fs = "locked"
         THEN Uncaught /\ fs' = fs
         ELSE /\ fs' = "absent"
              /\ pc' = "import"
              /\ UNCHANGED <<out, exitCode>>
    /\ UNCHANGED env
    /\ DbUnchanged

\* from sqlalchemy_schemadisplay import create_schema_graph
ImportGraph ==
    /\ pc = "import"
    /\ pc' = IF Importable THEN "create_all" ELSE "except"
    /\ UNCHANGED <<fs, env, out, exitCode>>
    /\ DbUnchanged

\* engine = create_engine('sqlite:///:memory:'); Base.metadata.create_all(engine);
\* graph = create_schema_graph(...): the tables are created in a database
\* in memory that the script alone sees.
CreateGraph ==
    /\ pc = "create_all"
    /\ pc' = "write_png"
    /\ UNCHANGED <<fs, env, out, exitCode>>
    /\ DbUnchanged

\* graph.write_png(output_path): without the graphviz programs the call
\* raises an error that is not an ImportError.
WritePng ==
    /\ pc = "write_png"
    /\ IF "graphviz" \in env
         THEN /\ fs' = "file"
              /\ pc' = "print"
              /\ UNCHANGED <<out, exitCode>>
         ELSE Uncaught /\ fs' = fs
    /\ UNCHANGED env
    /\ DbUnchanged

\* print(f"diagram.png generated successfully at {output_path}!") and the
\* end of the script.
PrintSuccess ==
    /\ pc = "print"
    /\ out' = Printed(SuccessLine)
    /\ exitCode' = 0
    /\ pc' = "done"
    /\ UNCHANGED <<fs, env>>
    /\ DbUnchanged

\* except ImportError: the four print calls, one line each.
PrintError ==
    /\ pc = "except"
    /\ Len(out[Len(out)]) < Len(ErrorLines)
    /\ out' = Printed(ErrorLines[Len(out[Len(out)]) + 1])
    /\ UNCHANGED <<pc, fs, env, exitCode>>
    /\ DbUnchanged

\* Mutant of SysExit: the handler ends without sys.exit(1) and the script
\* finishes with status 0.
SysExitFallThrough ==
    /\ pc = "except"
    /\ Len(out[Len(out)]) = Len(ErrorLines)
    /\ exitCode' = 0
    /\ pc' = "done"
    /\ UNCHANGED <<fs, env, out>>
    /\ DbUnchanged

\* sys.exit(1)
SysExit ==
    /\ pc = "except"
    /\ Len(out[Len(out)]) = Len(ErrorLines)
    /\ exitCode' = 1
    /\ pc' = "done"
    /\ UNCHANGED <<fs, env, out>>
    /\ DbUnchanged

\* Between runs a dependency is installed or uninstalled.
ChangeDependency ==
    /\ pc \in {"idle", "done"}
    /\ \E d \in Dependencies : env' = IF d \in env THEN env \ {d} ELSE env \cup {d}
    /\ pc' = "idle"
    /\ UNCHANGED <<fs, out, exitCode>>
    /\ DbUnchanged

\* Between runs the image is deleted, put there, or made impossible to remove.
ChangeOutputPath ==
    /\ pc \in {"idle", "done"}
    /\ fs' \in {"absent", "file", "locked"} \ {fs}
    /\ pc' = "idle"
    /\ UNCHANGED <<env, out, exitCode>>
    /\ DbUnchanged

NextScript ==
    \/ Start
    \/ RemoveOld
    \/ ImportGraph
    \/ CreateGraph
    \/ WritePng
    \/ PrintSuccess
    \/ PrintError
    \/ SysExit
    \/ ChangeDependency
    \/ ChangeOutputPath

SpecScript == InitScript /\ [][NextScript]_vars

ThisRun == out[Len(out)]

\* C7: every finished run either wrote the image at output_path or exited
\* with a non-zero status after printing a message, never both and never
\* neither; it is the second whenever the dependency cannot be imported; no
\* run that failed to write the image ends with status 0 or without a message.
C7_TwoOutcomes ==
    pc = "done" =>
        LET wrote == fs = "file"
            failed == exitCode # 0 /\ ThisRun # << >>
        IN /\ wrote <=> ~failed
           /\ ~Importable => failed
           /\ wrote => exitCode = 0
           /\ ~wrote => exitCode # 0 /\ ThisRun # << >>

\* A run that found the dependency missing has printed the four lines and
\* exited with status 1.
C7_Witness ==
    /\ pc = "done"
    /\ ~Importable
    /\ ThisRun = ErrorLines
    /\ exitCode = 1

\* C10: the old image is removed before the import is attempted, a missing
\* one being tolerated, so from the import on through the missing-dependency
\* exit there is no diagram.png at output_path.
C10_NoStaleImage ==
    /\ pc \in {"import", "except"} => fs = "absent"
    /\ (pc = "done" /\ ThisRun # << >> /\ ThisRun[1] = ErrorLines[1]) => fs = "absent"

\* A first run wrote the image; the second, with the dependency gone, has
\* exited through the ImportError handler and no image is left.
C10_Witness ==
    /\ pc = "done"
    /\ Len(out) = 2
    /\ out[1] = <<SuccessLine>>
    /\ out[2] = ErrorLines
    /\ exitCode = 1
    /\ fs = "absent"

====
